---- MODULE Spec2Model ----
(***************************************************************************)
(* Interview transcript analysis relay: the Flask routes of app.py and the *)
(* Streamlit dashboard of streamlit_app.py, with the two remote services   *)
(* (call-records service "Vapi", completion service "OpenAI") as           *)
(* nondeterministic environments.                                          *)
(*                                                                         *)
(* Python str values are sequences of one-character strings, so that       *)
(* find / rfind / slicing / len / f-string concatenation / json.loads are  *)
(* computed character by character.                                        *)
(***************************************************************************)
EXTENDS Integers, Sequences, FiniteSets, TLC

VARIABLES
    completion,     \* behaviour of openai.chat.completions.create in this run
    az_pc,          \* analyze_transcript called directly: "call" / "done"
    az_transcript,  \*   its argument
    az_result,      \*   its outcome (returned value or raised exception)
    lc_pc,          \* get_latest_completed_call called directly: "call" / "done"
    lc_listing,     \*   behaviour of vapi_client.calls.list()
    lc_result,      \*   returned value and the notices it showed
    session,        \* st.session_state of the dashboard
    last            \* the latest interaction: an HTTP exchange of app.py (request,
                    \*   remote calls, response) or a script run of the dashboard
                    \*   (click, remote calls, screen)

vars == <<completion, az_pc, az_transcript, az_result, lc_pc, lc_listing, lc_result,
          session, last>>

(***************************************************************************)
(* Bounds of the exploration.                                              *)
(***************************************************************************)
MaxFrags == 3       \* a completion reply is made of at most MaxFrags fragments
MaxSysFrags == 1    \* same, in the specification of the routes and the dashboard
MaxCalls == 2       \* length of the list returned by calls.list()
MaxSysCalls == 1    \* same, in the specification of the routes and the dashboard
MaxTime == 2        \* creation timestamps are 1..MaxTime

(***************************************************************************)
(* String literals of the source and the input strings, as character       *)
(* sequences.                                                              *)
(***************************************************************************)
\* app.py:137   error
K_error ==
    <<"e","r","r","o","r">>
\* app.py:138   raw_response
K_raw_response ==
    <<"r","a","w","_","r","e","s","p","o","n","s","e">>
\* app.py:76   overall_score
K_overall_score ==
    <<"o","v","e","r","a","l","l","_","s","c","o","r","e">>
\* app.py:77   detailed_feedback
K_detailed_feedback ==
    <<"d","e","t","a","i","l","e","d","_","f","e","e","d","b","a","c","k">>
\* app.py:109   summary
K_summary ==
    <<"s","u","m","m","a","r","y">>
\* app.py:137   Failed to parse AI response
M_FailedToParse ==
    <<"F","a","i","l","e","d"," ","t","o"," ","p","a","r","s","e"," ","A","I"," ","r","e","s",
      "p","o","n","s","e">>
\* app.py:143   OpenAI API error: 
M_OpenAIError ==
    <<"O","p","e","n","A","I"," ","A","P","I"," ","e","r","r","o","r",":"," ">>
\* app.py:130 (AttributeError text of None.find)   'NoneType' object has no attribute 'find'
M_NoFind ==
    <<"'","N","o","n","e","T","y","p","e","'"," ","o","b","j","e","c","t"," ","h","a","s"," ",
      "n","o"," ","a","t","t","r","i","b","u","t","e"," ","'","f","i","n","d","'">>
\* app.py:41   Failed to fetch transcript from Vapi: 
M_FailedToFetch ==
    <<"F","a","i","l","e","d"," ","t","o"," ","f","e","t","c","h"," ","t","r","a","n","s","c",
      "r","i","p","t"," ","f","r","o","m"," ","V","a","p","i",":"," ">>
\* app.py:38 (AttributeError text of None.transcript)   'NoneType' object has no attribute 'transcript'
M_NoTranscript ==
    <<"'","N","o","n","e","T","y","p","e","'"," ","o","b","j","e","c","t"," ","h","a","s"," ",
      "n","o"," ","a","t","t","r","i","b","u","t","e"," ","'","t","r","a","n","s","c","r","i",
      "p","t","'">>
\* app.py:167   Error analyzing call 
M_ErrorAnalyzing ==
    <<"E","r","r","o","r"," ","a","n","a","l","y","z","i","n","g"," ","c","a","l","l"," ">>
\* app.py:187   Error fetching transcript for call 
M_ErrorFetching ==
    <<"E","r","r","o","r"," ","f","e","t","c","h","i","n","g"," ","t","r","a","n","s","c","r",
      "i","p","t"," ","f","o","r"," ","c","a","l","l"," ">>
\* app.py:167   : 
M_Colon ==
    <<":"," ">>
\* app.py:162 (TypeError text of len(None))   object of type 'NoneType' has no len()
M_NoLen ==
    <<"o","b","j","e","c","t"," ","o","f"," ","t","y","p","e"," ","'","N","o","n","e","T","y",
      "p","e","'"," ","h","a","s"," ","n","o"," ","l","e","n","(",")">>
\* streamlit_app.py:119   Analysis failed: 
M_AnalysisFailed ==
    <<"A","n","a","l","y","s","i","s"," ","f","a","i","l","e","d",":"," ">>
\* streamlit_app.py:117   Analysis completed!
M_AnalysisCompleted ==
    <<"A","n","a","l","y","s","i","s"," ","c","o","m","p","l","e","t","e","d","!">>
\* streamlit_app.py:45   Call started with ID: 
M_CallStarted ==
    <<"C","a","l","l"," ","s","t","a","r","t","e","d"," ","w","i","t","h"," ","I","D",":"," ">>
\* streamlit_app.py:48   Failed to start call: 
M_FailedToStart ==
    <<"F","a","i","l","e","d"," ","t","o"," ","s","t","a","r","t"," ","c","a","l","l",":"," ">>
\* streamlit_app.py:56   Call 
M_Call ==
    <<"C","a","l","l"," ">>
\* streamlit_app.py:56    ended successfully
M_EndedOk ==
    <<" ","e","n","d","e","d"," ","s","u","c","c","e","s","s","f","u","l","l","y">>
\* streamlit_app.py:59   Failed to end call: 
M_FailedToEnd ==
    <<"F","a","i","l","e","d"," ","t","o"," ","e","n","d"," ","c","a","l","l",":"," ">>
\* streamlit_app.py:69   No completed calls found
M_NoCompleted ==
    <<"N","o"," ","c","o","m","p","l","e","t","e","d"," ","c","a","l","l","s"," ","f","o","u",
      "n","d">>
\* streamlit_app.py:76   Error fetching calls: 
M_ErrorFetchingCalls ==
    <<"E","r","r","o","r"," ","f","e","t","c","h","i","n","g"," ","c","a","l","l","s",":"," ">>
\* streamlit_app.py:139   Please enter a Call ID
M_EnterCallId ==
    <<"P","l","e","a","s","e"," ","e","n","t","e","r"," ","a"," ","C","a","l","l"," ","I","D">>

\* Inputs: call identifiers, upstream error messages, transcripts, reply fragments
\* input   c1
ID_c1 ==
    <<"c","1">>
\* input   c2
ID_c2 ==
    <<"c","2">>
\* input (call-records service error)   Not Found
E_NotFound ==
    <<"N","o","t"," ","F","o","u","n","d">>
\* input (call-records service error)   Unauthorized
E_Unauthorized ==
    <<"U","n","a","u","t","h","o","r","i","z","e","d">>
\* input (completion service error)   Connection error.
E_Connection ==
    <<"C","o","n","n","e","c","t","i","o","n"," ","e","r","r","o","r",".">>
\* input (completion service error)   Quota exceeded
E_Quota ==
    <<"Q","u","o","t","a"," ","e","x","c","e","e","d","e","d">>
\* input (transcript)   Hi
T_Hi ==
    <<"H","i">>
\* spec.md:77 (reply prose)   Here is the result: 
F_Here ==
    <<"H","e","r","e"," ","i","s"," ","t","h","e"," ","r","e","s","u","l","t",":"," ">>
\* spec.md:77 (reply JSON object)   {"overall_score": 8, "detailed_feedback": {}, "summary": "ok"}
F_Json ==
    <<"{","\"","o","v","e","r","a","l","l","_","s","c","o","r","e","\"",":"," ","8",","," ",
      "\"","d","e","t","a","i","l","e","d","_","f","e","e","d","b","a","c","k","\"",":"," ","{",
      "}",","," ","\"","s","u","m","m","a","r","y","\"",":"," ","\"","o","k","\"","}">>
\* spec.md:77 (reply prose)    Thanks.
F_Thanks ==
    <<" ","T","h","a","n","k","s",".">>
\* input (reply fragment)   "a": 1
F_Pair ==
    <<"\"","a","\"",":"," ","1">>
\* streamlit_app.py:146   N/A
M_NA ==
    <<"N","/","A">>
\* app.py:199   Interview Transcript Analysis API
M_ApiTitle ==
    <<"I","n","t","e","r","v","i","e","w"," ","T","r","a","n","s","c","r","i","p","t"," ","A",
      "n","a","l","y","s","i","s"," ","A","P","I">>

(***************************************************************************)
(* Python values and outcomes.                                             *)
(***************************************************************************)
PyNone == [t |-> "None"]
PyStr(s) == [t |-> "str", s |-> s]
PyInt(n) == [t |-> "int", n |-> n]
PyBool(b) == [t |-> "bool", b |-> b]
PyDict(m) == [t |-> "dict", m |-> m]

\* A call either returns a value or raises an exception carrying str(e).
Return(v) == [raised |-> FALSE, value |-> v]
Raise(m) == [raised |-> TRUE, msg |-> m]

EmptyMap == <<>>
MapPut(m, k, v) == [x \in (DOMAIN m) \cup {k} |-> IF x = k THEN v ELSE m[x]]
Dict1(k, v) == PyDict(MapPut(EmptyMap, k, v))
Dict2(k1, v1, k2, v2) == PyDict(MapPut(MapPut(EmptyMap, k1, v1), k2, v2))

Min(a, b) == IF a <= b THEN a ELSE b
Max(a, b) == IF a >= b THEN a ELSE b

\* str.find(c): 0-based index of the first occurrence, -1 when absent.
RECURSIVE find_from(_, _, _)
find_from(s, c, i) ==
    IF i > Len(s) THEN -1 ELSE IF s[i] = c THEN i - 1 ELSE find_from(s, c, i + 1)
find(s, c) == find_from(s, c, 1)

\* rfind confused with find: the first occurrence.
rfind_first(s, c) == find(s, c)

\* str.rfind(c): 0-based index of the last occurrence, -1 when absent.
RECURSIVE rfind_from(_, _, _)
rfind_from(s, c, i) ==
    IF i < 1 THEN -1 ELSE IF s[i] = c THEN i - 1 ELSE rfind_from(s, c, i - 1)
rfind(s, c) == rfind_from(s, c, Len(s))

\* s[a:b] with Python's handling of negative and out-of-range indices.
PySlice(s, a, b) ==
    LET n == Len(s)
        lo == IF a < 0 THEN Max(n + a, 0) ELSE Min(a, n)
        hi == IF b < 0 THEN Max(n + b, 0) ELSE Min(b, n)
    IN IF lo >= hi THEN <<>> ELSE SubSeq(s, lo + 1, hi)

\* x in s, for strings.
Contains(s, x) ==
    \E i \in 0..(Len(s) - Len(x)) : SubSeq(s, i + 1, i + Len(x)) = x

(***************************************************************************)
(* json.loads, on texts over the characters of the replies explored here:  *)
(* objects, strings without escapes, non-negative integers, true / false / *)
(* null and whitespace.  Positions are 1-based; a scan returns the decoded *)
(* value and the position after it.                                        *)
(***************************************************************************)
Quote == "\""
Whitespace == {" ", "\t", "\n", "\r"}
DigitChars == {"0", "1", "2", "3", "4", "5", "6", "7", "8", "9"}
DigitVal(c) ==
    CASE c = "0" -> 0 [] c = "1" -> 1 [] c = "2" -> 2 [] c = "3" -> 3 [] c = "4" -> 4
      [] c = "5" -> 5 [] c = "6" -> 6 [] c = "7" -> 7 [] c = "8" -> 8 [] c = "9" -> 9

NoValue == [ok |-> FALSE]
Scanned(v, e) == [ok |-> TRUE, val |-> v, end |-> e]

RECURSIVE SkipWS(_, _)
SkipWS(s, i) == IF i <= Len(s) /\ s[i] \in Whitespace THEN SkipWS(s, i + 1) ELSE i

\* Position of the quote closing a string whose content starts at j; 0 when
\* the string is unterminated or holds a control character.
RECURSIVE StrEnd(_, _)
StrEnd(s, j) ==
    IF j > Len(s) THEN 0
    ELSE IF s[j] = Quote THEN j
    ELSE IF s[j] \in {"\t", "\n", "\r"} THEN 0
    ELSE StrEnd(s, j + 1)

RECURSIVE IntEnd(_, _)
IntEnd(s, j) == IF j <= Len(s) /\ s[j] \in DigitChars THEN IntEnd(s, j + 1) ELSE j

RECURSIVE IntVal(_, _, _)
IntVal(s, i, j) == IF j < i THEN 0 ELSE 10 * IntVal(s, i, j - 1) + DigitVal(s[j])

Literal(s, i, word) == i + Len(word) - 1 <= Len(s) /\ SubSeq(s, i, i + Len(word) - 1) = word

RECURSIVE ScanOnce(_, _), JSONObject(_, _), Members(_, _, _)

ScanOnce(s, i) ==
    IF i > Len(s) THEN NoValue
    ELSE IF s[i] = Quote THEN
        LET e == StrEnd(s, i + 1)
        IN IF e = 0 THEN NoValue ELSE Scanned(PyStr(SubSeq(s, i + 1, e - 1)), e + 1)
    ELSE IF s[i] = "{" THEN JSONObject(s, i + 1)
    ELSE IF Literal(s, i, <<"n", "u", "l", "l">>) THEN Scanned(PyNone, i + 4)
    ELSE IF Literal(s, i, <<"t", "r", "u", "e">>) THEN Scanned(PyBool(TRUE), i + 4)
    ELSE IF Literal(s, i, <<"f", "a", "l", "s", "e">>) THEN Scanned(PyBool(FALSE), i + 5)
    ELSE IF s[i] \in DigitChars THEN
        LET e == IF s[i] = "0" THEN i + 1 ELSE IntEnd(s, i)
        IN Scanned(PyInt(IntVal(s, i, e - 1)), e)
    ELSE NoValue

\* i is the position after the opening brace.
JSONObject(s, i) ==
    LET j == SkipWS(s, i)
    IN IF j > Len(s) THEN NoValue
       ELSE IF s[j] = "}" THEN Scanned(PyDict(EmptyMap), j + 1)
       ELSE IF s[j] # Quote THEN NoValue
       ELSE Members(s, j, EmptyMap)

\* j is the position of the quote opening the next key; a repeated key keeps
\* its last value.
Members(s, j, acc) ==
    LET ke == StrEnd(s, j + 1)
    IN IF ke = 0 THEN NoValue
       ELSE
        LET key == SubSeq(s, j + 1, ke - 1)
            c == SkipWS(s, ke + 1)
        IN IF c > Len(s) \/ s[c] # ":" THEN NoValue
           ELSE
            LET v == ScanOnce(s, SkipWS(s, c + 1))
            IN IF ~v.ok THEN NoValue
               ELSE
                LET n == SkipWS(s, v.end)
                    acc2 == MapPut(acc, key, v.val)
                IN IF n > Len(s) THEN NoValue
                   ELSE IF s[n] = "}" THEN Scanned(PyDict(acc2), n + 1)
                   ELSE IF s[n] # "," THEN NoValue
                   ELSE
                    LET q == SkipWS(s, n + 1)
                    IN IF q <= Len(s) /\ s[q] = Quote THEN Members(s, q, acc2)
                       ELSE NoValue

\* json.loads(s): one value, surrounded by whitespace only; NoValue stands
\* for json.JSONDecodeError.
json_loads(s) ==
    LET r == ScanOnce(s, SkipWS(s, 1))
    IN IF ~r.ok THEN NoValue
       ELSE IF SkipWS(s, r.end) # Len(s) + 1 THEN NoValue
       ELSE r

(***************************************************************************)
(* InterviewAnalyzer.analyze_transcript (app.py).                          *)
(*                                                                         *)
(* `create` is what openai.chat.completions.create does on this call:      *)
(*   [kind |-> "raise", msg |-> m]       the invocation raises              *)
(*   [kind |-> "reply", content |-> c]   c is message.content: a str, or   *)
(*                                       None when the model produced none *)
(***************************************************************************)
\* Lines 127-139: the inner try.  None.find raises AttributeError, which the
\* inner handler (json.JSONDecodeError only) does not catch.
parse_reply(content) ==
    IF content = PyNone THEN Raise(M_NoFind)
    ELSE
        LET start_idx == find(content.s, "{")
            end_idx == rfind(content.s, "}") + 1
            json_str == PySlice(content.s, start_idx, end_idx)
            decoded == json_loads(json_str)
        IN IF decoded.ok THEN Return(decoded.val)
           ELSE Return(Dict2(K_error, PyStr(M_FailedToParse), K_raw_response, content))

\* analyze_transcript without its outer handler: exceptions propagate.
analyze_transcript_unguarded(transcript, create) ==
    IF create.kind = "raise" THEN Raise(create.msg) ELSE parse_reply(create.content)

\* analyze_transcript whose outer handler wraps and re-raises, as
\* get_transcript_from_vapi does.
analyze_transcript_reraising(transcript, create) ==
    LET body == IF create.kind = "raise" THEN Raise(create.msg)
                ELSE parse_reply(create.content)
    IN IF body.raised THEN Raise(M_OpenAIError \o body.msg) ELSE body

\* Lines 115-144: the outer try turns every exception into an error payload.
analyze_transcript(transcript, create) ==
    LET body == IF create.kind = "raise" THEN Raise(create.msg)
                ELSE parse_reply(create.content)
    IN IF body.raised THEN Return(Dict1(K_error, PyStr(M_OpenAIError \o body.msg)))
       ELSE body

(***************************************************************************)
(* Inputs.                                                                 *)
(***************************************************************************)
Fragments == {F_Here, F_Json, F_Thanks, F_Pair, <<"{">>, <<"}">>, <<",">>}
SysFragments == {F_Json, <<"{">>, <<"}">>}

RECURSIVE Flatten(_)
Flatten(fs) == IF fs = <<>> THEN <<>> ELSE Head(fs) \o Flatten(Tail(fs))

RepliesUpTo(frags, k) == {Flatten(fs) : fs \in UNION {[1..n -> frags] : n \in 0..k}}

OpenAIErrors == {E_Connection, E_Quota}

CompletionsUpTo(frags, k) ==
    {[kind |-> "raise", msg |-> m] : m \in OpenAIErrors}
    \cup {[kind |-> "reply", content |-> PyNone]}
    \cup {[kind |-> "reply", content |-> PyStr(r)] : r \in RepliesUpTo(frags, k)}

Transcripts == {<<>>, T_Hi}
TranscriptValues == {PyNone} \cup {PyStr(t) : t \in Transcripts}

CallIds == {ID_c1, ID_c2}
VapiErrors == {E_NotFound, E_Unauthorized}

\* What vapi_client.calls.get(id=...) does: it raises, or returns a call whose
\* artifact is None or carries a transcript (a str, or None when absent).
GetOutcomes ==
    {[kind |-> "raise", msg |-> m] : m \in VapiErrors}
    \cup {[kind |-> "call", artifact |-> PyNone]}
    \cup {[kind |-> "call", artifact |-> [transcript |-> t]] : t \in TranscriptValues}

CallRecords(times) == [id : CallIds, status : {"ended", "in-progress"}, created_at : times]

\* What vapi_client.calls.list() does.
ListingsUpTo(records, k) ==
    {[kind |-> "raise", msg |-> m] : m \in VapiErrors}
    \cup {[kind |-> "list", calls |-> cs] : cs \in UNION {[1..n -> records] : n \in 0..k}}

\* What vapi_client.call.start(...) and vapi_client.call.end(...) do.
StartOutcomes ==
    {[kind |-> "raise", msg |-> m] : m \in VapiErrors} \cup {[kind |-> "call", id |-> i] : i \in CallIds}
EndOutcomes == {[kind |-> "raise", msg |-> m] : m \in VapiErrors} \cup {[kind |-> "ok"]}

Idle == [t |-> "idle"]
Absent == [t |-> "absent"]

(***************************************************************************)
(* InterviewAnalyzer.get_transcript_from_vapi (app.py).                    *)
(***************************************************************************)
get_transcript_from_vapi(call_id, got) ==
    LET body == IF got.kind = "raise" THEN Raise(got.msg)
                ELSE IF got.artifact = PyNone THEN Raise(M_NoTranscript)
                ELSE Return(got.artifact.transcript)
    IN IF body.raised THEN Raise(M_FailedToFetch \o body.msg) ELSE body

\* len(x)
py_len(x) == IF x.t = "str" THEN Return(Len(x.s)) ELSE Raise(M_NoLen)

\* bool(x) for the values tested by the dashboard
Truthy(x) ==
    CASE x.t = "str" -> Len(x.s) > 0
      [] x.t = "dict" -> DOMAIN x.m # {}
      [] OTHER -> FALSE

(***************************************************************************)
(* Routes of app.py.  A handler yields the status, the JSON body, the      *)
(* outcome of the transcript fetch and the remote calls it issued.         *)
(***************************************************************************)
Exchange(status, body, fetch, calls) ==
    [status |-> status, body |-> body, fetched |-> fetch, calls |-> calls]

analyze_by_call_id(call_id, got, create) ==
    LET transcript == get_transcript_from_vapi(call_id, got)
        failure(msg, calls) ==
            Exchange(500, [error |-> M_ErrorAnalyzing \o call_id \o M_Colon \o msg],
                     transcript, calls)
    IN IF transcript.raised THEN failure(transcript.msg, <<"calls.get">>)
       ELSE
        LET analysis_result == analyze_transcript(transcript.value, create)
            length == py_len(transcript.value)
            issued == <<"calls.get", "chat.completions.create">>
        IN IF analysis_result.raised THEN failure(analysis_result.msg, issued)
           ELSE IF length.raised THEN failure(length.msg, issued)
           ELSE Exchange(200,
                         [success |-> TRUE, call_id |-> call_id,
                          analysis |-> analysis_result.value,
                          transcript_length |-> length.value],
                         transcript, issued)

get_transcript_only(call_id, got) ==
    LET transcript == get_transcript_from_vapi(call_id, got)
        failure(msg) ==
            Exchange(500, [error |-> M_ErrorFetching \o call_id \o M_Colon \o msg],
                     transcript, <<"calls.get">>)
    IN IF transcript.raised THEN failure(transcript.msg)
       ELSE
        LET length == py_len(transcript.value)
        IN IF length.raised THEN failure(length.msg)
           ELSE Exchange(200,
                         [success |-> TRUE, call_id |-> call_id,
                          transcript |-> transcript.value,
                          transcript_length |-> length.value],
                         transcript, <<"calls.get">>)

\* A health check that probes the call-records service.
health_check_probing == Exchange(200, [status |-> "healthy"], Absent, <<"calls.list">>)

health_check == Exchange(200, [status |-> "healthy"], Absent, <<>>)

home == Exchange(200, [message |-> M_ApiTitle], Absent, <<>>)

(***************************************************************************)
(* Dashboard (streamlit_app.py).  A helper yields the session state it     *)
(* leaves, the notices it showed and the remote calls it issued.           *)
(***************************************************************************)
Notice(kind, msg) == [kind |-> kind, msg |-> msg]

Effect(ss, shown, calls) == [session |-> ss, notices |-> shown, calls |-> calls]

start_call(ss, started) ==
    IF started.kind = "raise"
    THEN Effect(ss, <<Notice("error", M_FailedToStart \o started.msg)>>, <<"call.start">>)
    ELSE Effect([ss EXCEPT !.current_call_id = PyStr(started.id)],
                <<Notice("success", M_CallStarted \o started.id)>>, <<"call.start">>)

end_call(ss, call_id, ended) ==
    IF ended.kind = "raise"
    THEN Effect(ss, <<Notice("error", M_FailedToEnd \o ended.msg)>>, <<"call.end">>)
    ELSE Effect([ss EXCEPT !.call_ended = TRUE],
                <<Notice("success", M_Call \o call_id \o M_EndedOk)>>, <<"call.end">>)

\* min in place of max: the first call of the least key.
min_created_at(calls) ==
    LET i == CHOOSE i \in 1..Len(calls) :
                /\ \A j \in 1..Len(calls) : calls[j].created_at >= calls[i].created_at
                /\ \A j \in 1..(i - 1) : calls[j].created_at > calls[i].created_at
    IN calls[i]

\* max(calls, key=lambda x: x.created_at): the first call of the greatest key.
max_created_at(calls) ==
    LET i == CHOOSE i \in 1..Len(calls) :
                /\ \A j \in 1..Len(calls) : calls[j].created_at <= calls[i].created_at
                /\ \A j \in 1..(i - 1) : calls[j].created_at < calls[i].created_at
    IN calls[i]

IsEnded(call) == call.status = "ended"

\* Yields the returned value (an identifier or None) and the notices shown.
get_latest_completed_call(listing) ==
    IF listing.kind = "raise"
    THEN [value |-> PyNone, notices |-> <<Notice("error", M_ErrorFetchingCalls \o listing.msg)>>]
    ELSE
        LET completed_calls == SelectSeq(listing.calls, IsEnded)
        IN IF completed_calls = <<>>
           THEN [value |-> PyNone, notices |-> <<Notice("warning", M_NoCompleted)>>]
           ELSE [value |-> PyStr(max_created_at(completed_calls).id), notices |-> <<>>]

\* Lines 108-119 and 126-137: the analysis of one identifier.
analyze_call(ss, call_id, got, create) ==
    LET ss1 == [ss EXCEPT !.analyze_call_id = PyStr(call_id)]
        transcript == get_transcript_from_vapi(call_id, got)
        failed(msg, calls) ==
            [session |-> ss1, notices |-> <<Notice("error", M_AnalysisFailed \o msg)>>,
             calls |-> calls, fetched |-> transcript]
    IN IF transcript.raised THEN failed(transcript.msg, <<"calls.get">>)
       ELSE
        LET analysis == analyze_transcript(transcript.value, create)
            issued == <<"calls.get", "chat.completions.create">>
        IN IF analysis.raised THEN failed(analysis.msg, issued)
           ELSE [session |-> [ss1 EXCEPT !.transcript = transcript.value,
                                         !.analysis = analysis.value],
                 notices |-> <<Notice("success", M_AnalysisCompleted)>>,
                 calls |-> issued, fetched |-> transcript]

\* Line 97: whether "End Current Call" is rendered.
end_offered(ss) == Truthy(ss.current_call_id) /\ ~ss.call_ended

\* Lines 142-147: the overall score shown, Absent when no result is displayed.
render_results(ss) ==
    IF ss.analysis # Absent /\ Truthy(ss.analysis)
    THEN IF K_overall_score \in DOMAIN ss.analysis.m THEN ss.analysis.m[K_overall_score]
         ELSE PyStr(M_NA)
    ELSE Absent

\* Lines 168-176.
render_sidebar(ss) ==
    IF Truthy(ss.current_call_id)
    THEN IF ss.call_ended THEN "Call ended" ELSE "Call in progress"
    ELSE "No active call"

\* One script run of main(): the log of the run, from the click, the session
\* state at line 97, the effect of the clicked control and the final render.
Run(click, call_id, at97, eff, got, fetch, vapi) ==
    [by |-> "dashboard", button |-> click, call_id |-> call_id,
     vapi |-> vapi, got |-> got, fetched |-> fetch,
     calls |-> eff.calls, notices |-> eff.notices,
     end_button |-> end_offered(at97),
     results |-> render_results(eff.session),
     sidebar |-> render_sidebar(eff.session)]

\* Lines 83-86, and the first render.
SessionInit ==
    [current_call_id |-> PyNone, call_ended |-> FALSE,
     analyze_call_id |-> Absent, transcript |-> Absent, analysis |-> Absent]

\* One exchange of app.py: the request and what the handler yields.
Served(route, call_id, got, exchange) ==
    [by |-> "app", route |-> route, call_id |-> call_id, got |-> got] @@ exchange

NoInteraction == [by |-> "none"]

(***************************************************************************)
(* Specification of analyze_transcript alone: every service behaviour and  *)
(* transcript value, one call.                                             *)
(***************************************************************************)
AnalyzerIdle == az_pc = "idle" /\ az_transcript = Idle /\ az_result = Idle
LatestIdle == lc_pc = "idle" /\ lc_listing = Idle /\ lc_result = Idle
SystemIdle == session = SessionInit /\ last = NoInteraction

InitAnalyzer ==
    /\ completion \in CompletionsUpTo(Fragments, MaxFrags)
    /\ az_pc = "call"
    /\ az_transcript \in TranscriptValues
    /\ az_result = Idle
    /\ LatestIdle
    /\ SystemIdle

AnalyzeTranscript ==
    /\ az_pc = "call"
    /\ az_result' = analyze_transcript(az_transcript, completion)
    /\ az_pc' = "done"
    /\ UNCHANGED <<completion, az_transcript, lc_pc, lc_listing, lc_result, session, last>>

NextAnalyzer == AnalyzeTranscript

SpecAnalyzer == InitAnalyzer /\ [][NextAnalyzer]_vars

(***************************************************************************)
(* Specification of get_latest_completed_call alone.                       *)
(***************************************************************************)
InitLatest ==
    /\ completion = Idle
    /\ AnalyzerIdle
    /\ lc_pc = "call"
    /\ lc_listing \in ListingsUpTo(CallRecords(1..MaxTime), MaxCalls)
    /\ lc_result = Idle
    /\ SystemIdle

GetLatestCompletedCall ==
    /\ lc_pc = "call"
    /\ lc_result' = get_latest_completed_call(lc_listing)
    /\ lc_pc' = "done"
    /\ UNCHANGED <<completion, az_pc, az_transcript, az_result, lc_listing, session, last>>

NextLatest == GetLatestCompletedCall

SpecLatest == InitLatest /\ [][NextLatest]_vars

(***************************************************************************)
(* Specification of the service: the Flask routes and one dashboard        *)
(* session, against the same remote services.                              *)
(***************************************************************************)
Init ==
    /\ completion \in CompletionsUpTo(SysFragments, MaxSysFrags)
    /\ AnalyzerIdle
    /\ LatestIdle
    /\ session = SessionInit
    /\ last = NoInteraction

Others == <<completion, az_pc, az_transcript, az_result, lc_pc, lc_listing, lc_result>>

\* GET /analyze-call/<call_id>
AnalyzeByCallId ==
    \E call_id \in CallIds, got \in GetOutcomes :
        /\ last' = Served("analyze-call", call_id, got,
                          analyze_by_call_id(call_id, got, completion))
        /\ UNCHANGED <<session, Others>>

\* GET /get-transcript/<call_id>
GetTranscriptOnly ==
    \E call_id \in CallIds, got \in GetOutcomes :
        /\ last' = Served("get-transcript", call_id, got, get_transcript_only(call_id, got))
        /\ UNCHANGED <<session, Others>>

\* GET /health
HealthCheck ==
    /\ last' = Served("health", Absent, Absent, health_check)
    /\ UNCHANGED <<session, Others>>

\* GET /
Home ==
    /\ last' = Served("home", Absent, Absent, home)
    /\ UNCHANGED <<session, Others>>

\* A script run with "Start New Call" clicked; the service gives a new call an
\* identifier other than the current call's.
ClickStartNewCall ==
    \E started \in StartOutcomes :
        \E eff \in {start_call(session, started)} :
           /\ started.kind = "call" => PyStr(started.id) # session.current_call_id
           /\ session' = eff.session
           /\ last' = Run("start", Absent, eff.session, eff, Absent, Absent, started)
           /\ UNCHANGED Others

\* A script run with "End Current Call" clicked; the button exists only when
\* line 97 rendered it.
ClickEndCurrentCall ==
    /\ end_offered(session)
    /\ \E ended \in EndOutcomes :
        \E eff \in {end_call(session, session.current_call_id.s, ended)} :
           /\ session' = eff.session
           /\ last' = Run("end", session.current_call_id, session, eff, Absent, Absent, ended)
           /\ UNCHANGED Others

\* A script run with "Analyze Latest Completed Call" clicked.
ClickAnalyzeLatest ==
    \E listing \in ListingsUpTo(CallRecords({1}), MaxSysCalls), got \in GetOutcomes :
        \E latest \in {get_latest_completed_call(listing)} :
            IF Truthy(latest.value)
            THEN \E a \in {analyze_call(session, latest.value.s, got, completion)} :
                    /\ session' = a.session
                    /\ last' = Run("latest", latest.value, session,
                                   Effect(a.session, latest.notices \o a.notices,
                                          <<"calls.list">> \o a.calls),
                                   got, a.fetched, Absent)
                    /\ UNCHANGED Others
            ELSE /\ session' = session
                 /\ last' = Run("latest", latest.value, session,
                                Effect(session, latest.notices, <<"calls.list">>),
                                Absent, Absent, Absent)
                 /\ UNCHANGED Others

\* A script run with "Analyze This Call" clicked, whatever the text input holds.
ClickAnalyzeThisCall ==
    \E call_id_input \in CallIds \cup {<<>>}, got \in GetOutcomes :
        IF Truthy(PyStr(call_id_input))
        THEN \E a \in {analyze_call(session, call_id_input, got, completion)} :
                /\ session' = a.session
                /\ last' = Run("this", PyStr(call_id_input), session,
                               Effect(a.session, a.notices, a.calls), got, a.fetched, Absent)
                /\ UNCHANGED Others
        ELSE /\ session' = session
             /\ last' = Run("this", PyStr(call_id_input), session,
                            Effect(session, <<Notice("warning", M_EnterCallId)>>, <<>>),
                            Absent, Absent, Absent)
             /\ UNCHANGED Others

Next ==
    \/ AnalyzeByCallId
    \/ GetTranscriptOnly
    \/ HealthCheck
    \/ Home
    \/ ClickStartNewCall
    \/ ClickEndCurrentCall
    \/ ClickAnalyzeLatest
    \/ ClickAnalyzeThisCall

Spec == Init /\ [][Next]_vars

(***************************************************************************)
(* Properties.                                                             *)
(***************************************************************************)
SetMin(S) == CHOOSE x \in S : \A y \in S : x <= y
SetMax(S) == CHOOSE x \in S : \A y \in S : x >= y
Positions(s, chars) == {k \in 1..Len(s) : s[k] \in chars}

\* The text from the first '{' to the last '}' of s, empty when there is none.
BraceSpan(s) ==
    LET opens == Positions(s, {"{"})
        closes == Positions(s, {"}"})
    IN IF opens = {} \/ closes = {} \/ SetMin(opens) > SetMax(closes) THEN <<>>
       ELSE SubSeq(s, SetMin(opens), SetMax(closes))

RubricKeys == {K_overall_score, K_detailed_feedback, K_summary}

AnalyzerReturned == az_pc = "done"
ReplyIsText == completion.kind = "reply" /\ completion.content.t = "str"

\* C1 as claimed: analyze_transcript never raises and returns a mapping that
\* holds overall_score, detailed_feedback and summary, or holds error.
C1_ThreeKeysOrError ==
    AnalyzerReturned =>
        /\ ~az_result.raised
        /\ az_result.value.t = "dict"
        /\ \/ RubricKeys \subseteq DOMAIN az_result.value.m
           \/ K_error \in DOMAIN az_result.value.m

\* C1 amended: analyze_transcript never raises and returns a mapping that holds
\* error, or is the object decoded from the reply's first '{' to its last '}',
\* whatever keys that object has.
C1_ErrorOrDecodedObject ==
    AnalyzerReturned =>
        /\ ~az_result.raised
        /\ az_result.value.t = "dict"
        /\ \/ K_error \in DOMAIN az_result.value.m
           \/ /\ ReplyIsText
              /\ json_loads(BraceSpan(completion.content.s)).ok
              /\ az_result.value = json_loads(BraceSpan(completion.content.s)).val

\* C1 witness: a returned mapping with neither the rubric keys nor error.
C1_UnvalidatedObject ==
    /\ AnalyzerReturned
    /\ ~az_result.raised
    /\ K_error \notin DOMAIN az_result.value.m
    /\ ~(RubricKeys \subseteq DOMAIN az_result.value.m)

\* C2: a reply that cannot be decoded from its first '{' to its last '}', a
\* reply without content included, yields an error payload whose raw_response
\* is the reply.
C2_RawResponseOnUndecodable ==
    /\ AnalyzerReturned
    /\ completion.kind = "reply"
    /\ \/ completion.content = PyNone
       \/ ~json_loads(BraceSpan(completion.content.s)).ok
    => /\ ~az_result.raised
       /\ az_result.value.t = "dict"
       /\ {K_error, K_raw_response} \subseteq DOMAIN az_result.value.m
       /\ az_result.value.m[K_raw_response] = completion.content

\* C3: for a reply P + J + S with J the text of a JSON object and no brace in
\* P or S, analyze_transcript returns the mapping decoded from J.
C3_DecodesEmbeddedObject ==
    AnalyzerReturned /\ ReplyIsText =>
        LET s == completion.content.s
            braces == Positions(s, {"{", "}"})
        IN braces # {} =>
            \A i \in 1..SetMin(braces), j \in SetMax(braces)..Len(s) :
                LET J == json_loads(SubSeq(s, i, j))
                IN J.ok /\ J.val.t = "dict" => az_result = Return(J.val)

\* C3 witness: the reply "Here is the result: {...} Thanks." decoded to its object.
C3_ProseAroundObject ==
    /\ AnalyzerReturned
    /\ completion = [kind |-> "reply", content |-> PyStr(F_Here \o F_Json \o F_Thanks)]
    /\ ~az_result.raised
    /\ DOMAIN az_result.value.m = RubricKeys
    /\ az_result.value.m[K_overall_score] = PyInt(8)

\* C9: get_latest_completed_call returns the identifier of an ended call of
\* greatest creation timestamp among the ended calls; None with a warning
\* exactly when no call is ended; None with an error notice when listing fails.
C9_LatestEndedCall ==
    lc_pc = "done" =>
        IF lc_listing.kind = "raise"
        THEN /\ lc_result.value = PyNone
             /\ lc_result.notices = <<Notice("error", M_ErrorFetchingCalls \o lc_listing.msg)>>
        ELSE
            LET calls == lc_listing.calls
                ended == {i \in 1..Len(calls) : calls[i].status = "ended"}
            IN /\ (lc_result.value = PyNone) <=> (ended = {})
               /\ ended = {} => lc_result.notices = <<Notice("warning", M_NoCompleted)>>
               /\ ended # {} =>
                    \E i \in ended :
                        /\ lc_result.value = PyStr(calls[i].id)
                        /\ \A j \in ended : calls[j].created_at <= calls[i].created_at

\* C9 witness: the older of two ended calls is passed over.
C9_NewerEndedCallChosen ==
    /\ lc_pc = "done"
    /\ lc_listing.kind = "list"
    /\ Len(lc_listing.calls) >= 2
    /\ lc_listing.calls[1].status = "ended" /\ lc_listing.calls[2].status = "ended"
    /\ lc_listing.calls[1].created_at < lc_listing.calls[2].created_at
    /\ lc_listing.calls[1].id # lc_listing.calls[2].id
    /\ lc_result.value = PyStr(lc_listing.calls[2].id)

ByApp(route) == last.by = "app" /\ last.route = route
ByDashboard(buttons) == last.by = "dashboard" /\ last.button \in buttons
AnalyzerInvoked == \E k \in 1..Len(last.calls) : last.calls[k] = "chat.completions.create"
Shown(kind) == {last.notices[k].msg : k \in {n \in 1..Len(last.notices) : last.notices[n].kind = kind}}

\* C4: when the call-records service rejects the identifier, the fetch raises
\* and the route or dashboard action reports a failure whose message holds the
\* identifier and the upstream message.
C4_RejectionNamesCall ==
    /\ \/ ByApp("analyze-call") \/ ByApp("get-transcript") \/ ByDashboard({"latest", "this"})
    /\ last.got # Absent
    /\ last.got.kind = "raise"
    => /\ last.fetched.raised
       /\ IF last.by = "app"
          THEN /\ last.status = 500
               /\ DOMAIN last.body = {"error"}
               /\ Contains(last.body.error, last.call_id)
               /\ Contains(last.body.error, last.got.msg)
          ELSE \E m \in Shown("error") :
                  Contains(m, last.call_id.s) /\ Contains(m, last.got.msg)

\* C5: /analyze-call answers 500 {error} exactly when the fetch failed, without
\* invoking the analyzer then; when the fetch returns, the analyzer is invoked
\* once after it and the answer is the success shape carrying its result.
C5_FailureIffFetchFailed ==
    ByApp("analyze-call") =>
        /\ (last.status = 500) <=> last.fetched.raised
        /\ last.fetched.raised =>
              DOMAIN last.body = {"error"} /\ last.calls = <<"calls.get">>
        /\ ~last.fetched.raised =>
              /\ last.calls = <<"calls.get", "chat.completions.create">>
              /\ last.status = 200
              /\ DOMAIN last.body = {"success", "call_id", "analysis", "transcript_length"}
              /\ Return(last.body.analysis) = analyze_transcript(last.fetched.value, completion)

\* C7: whenever the fetch returns, an absent transcript included, both routes
\* answer with the success shape and the character count of the transcript.
C7_TranscriptLength ==
    (ByApp("analyze-call") \/ ByApp("get-transcript")) /\ ~last.fetched.raised =>
        /\ last.status = 200
        /\ {"success", "call_id", "transcript_length"} \subseteq DOMAIN last.body
        /\ last.body.success
        /\ last.fetched.value.t = "str" => last.body.transcript_length = Len(last.fetched.value.s)

\* C6 as claimed: a failing completion invocation gives a 500 {error} answer of
\* /analyze-call, and an error notice, no success notice and no stored result
\* in the dashboard.
C6_SurfacedAsTransportError ==
    completion.kind = "raise" =>
        /\ ByApp("analyze-call") /\ AnalyzerInvoked =>
              last.status = 500 /\ DOMAIN last.body = {"error"}
        /\ ByDashboard({"latest", "this"}) /\ AnalyzerInvoked =>
              Shown("error") # {} /\ Shown("success") = {}
        /\ session.analysis = Absent

\* C6 amended: a failing completion invocation is embedded as the payload
\* {error: "OpenAI API error: <message>"}: a 200 answer of /analyze-call carries
\* it as analysis and no 500 answer carries the failure's message; the
\* dashboard shows "Analysis completed!", no error notice, and stores it.
C6_EmbeddedAsErrorPayload ==
    completion.kind = "raise" =>
        LET payload == Dict1(K_error, PyStr(M_OpenAIError \o completion.msg))
        IN /\ ByApp("analyze-call") /\ AnalyzerInvoked =>
                /\ last.status = 200 => last.body.analysis = payload
                /\ last.status # 200 => ~Contains(last.body.error, completion.msg)
           /\ ByDashboard({"latest", "this"}) /\ AnalyzerInvoked =>
                /\ Shown("success") = {M_AnalysisCompleted}
                /\ Shown("error") = {}
                /\ session.analysis = payload
           /\ session.analysis \in {Absent, payload}

\* C6 witness: /analyze-call answered 200 although the completion invocation failed.
C6_FailureAnsweredWithSuccess ==
    /\ completion.kind = "raise"
    /\ ByApp("analyze-call")
    /\ AnalyzerInvoked
    /\ last.status = 200
    /\ K_error \in DOMAIN last.body.analysis.m

\* C8: in every state GET /health can be served, and it answers
\* {"status": "healthy"} without calling either remote service.
C8_HealthIndependent ==
    /\ ENABLED HealthCheck
    /\ ByApp("health") =>
          /\ last.status = 200
          /\ last.body = [status |-> "healthy"]
          /\ last.calls = <<>>

\* C8 witness: /health served while the completion service fails, after a call
\* was started and ended from the dashboard.
C8_HealthyWhileRemoteFails ==
    /\ ByApp("health")
    /\ completion.kind = "raise"
    /\ session.call_ended
    /\ last.body = [status |-> "healthy"]

\* C10: after a successful start_call the session shows the new call as in
\* progress and offers "End Current Call"; a failed start_call or end_call
\* leaves current_call_id and call_ended unchanged.
C10_EndedFlagFollowsCurrentCall ==
    [][ last'.by = "dashboard" /\ last'.button \in {"start", "end"} =>
          /\ last'.button = "start" /\ last'.vapi.kind = "call" =>
                /\ session'.current_call_id = PyStr(last'.vapi.id)
                /\ ~session'.call_ended
                /\ last'.sidebar = "Call in progress"
                /\ last'.end_button
          /\ last'.vapi.kind = "raise" =>
                /\ session'.current_call_id = session.current_call_id
                /\ session'.call_ended = session.call_ended ]_vars
====
